---- MODULE Spec2Model ----
(***************************************************************************)
(* The Maps screen of src/app/index.tsx: the web implementation (Google    *)
(* Maps JavaScript API, lines 68-233) and the native implementation        *)
(* (react-native-maps + expo-location, lines 268-367).  One component      *)
(* instance is modelled in full; the platform is fixed when the bundle is  *)
(* built.  Every event handler is one action: the handler's state update,  *)
(* the re-render it causes, the commit of refs and the effects whose       *)
(* dependencies changed, run in declaration order, including the second    *)
(* render caused by state set inside an effect.                            *)
(*                                                                         *)
(* Coordinates and deltas are degrees scaled by 10^5 (37.78825 is 3778825).*)
(***************************************************************************)
EXTENDS Integers, FiniteSets, Sequences, TLC

\* Bounds of the exploration.
MaxToggles == 2
MaxRegionChanges == 1

VARIABLES
    platform,           \* "web" or "native": which Maps file the bundler resolved
    mounted,            \* "no", "yes", "gone": lifecycle of the Maps instance
    showUserLocation,   \* prop
    initialRegion,      \* prop (NullRegion when the caller passes none)
    errorMsg,           \* useState, both implementations
    screen,             \* the elements of the last committed render
    \* web component
    position,           \* useState<GeolocationPosition | null>
    mapLoaded,          \* useState(false)
    mapRef,             \* mapRef.current is the mounted div
    googleMapRef,       \* googleMapRef.current: the google.maps.Map held
    userMarkerRef,      \* userMarkerRef.current: id of the marker held, 0 = null
    \* browser
    geolocation,        \* navigator.geolocation is present
    pendingGeo,         \* getCurrentPosition calls whose callback has not fired
    head,               \* provider script elements in document.head, by owner
    scriptState,        \* per script element: "none", "loading", "loaded", "failed"
    googleLoaded,       \* window.google.maps is defined
    peerMounted,        \* lifecycle of another Maps component on the same page
    markers,            \* google.maps.Marker objects attached to a map
    \* native component
    region,             \* useState<Region>
    location,           \* useState<LocationObject | null>
    awaitingPermission, \* effect runs suspended at requestForegroundPermissionsAsync
    awaitingPosition,   \* effect runs suspended at getCurrentPositionAsync
    statuses,           \* the statuses the permission requests have returned
    status,             \* line 290: the status returned last, "none" before
    positionRequests,   \* calls of Location.getCurrentPositionAsync
    reported,           \* the region the MapView passed to onRegionChangeComplete last
    \* counters
    toggles,            \* changes of the showUserLocation prop
    regionChanges,      \* changes of the initialRegion prop
    readings,           \* position readings delivered
    mapsCreated,        \* google.maps.Map objects constructed
    markersCreated,     \* google.maps.Marker objects constructed
    injected            \* script elements appended by this component

vars == <<platform, mounted, showUserLocation, initialRegion, errorMsg, screen,
          position, mapLoaded, mapRef, googleMapRef, userMarkerRef,
          geolocation, pendingGeo, head, scriptState, googleLoaded, peerMounted,
          markers, region, location, awaitingPermission, awaitingPosition,
          statuses, status, positionRequests, reported, toggles,
          regionChanges, readings, mapsCreated, markersCreated, injected>>

webVars == <<position, mapLoaded, mapRef, googleMapRef, userMarkerRef,
             pendingGeo, head, scriptState, googleLoaded, peerMounted,
             markers, regionChanges, mapsCreated, markersCreated, injected>>

nativeVars ==
    <<region, location, awaitingPermission, awaitingPosition, statuses,
      status, positionRequests, reported>>

----------------------------------------------------------------------------
\* Values

Null == "null"

NullRegion ==
    [latitude |-> 0, longitude |-> 0, latitudeDelta |-> 0, longitudeDelta |-> 0]

NullPosition == [serial |-> 0, latitude |-> 0, longitude |-> 0]

NullMap ==
    [id |-> 0, latitude |-> 0, longitude |-> 0, latitudeDelta |-> 0,
     zoom |-> 0]

defaultRegion ==
    [latitude |-> 3778825, longitude |-> -12243240,
     latitudeDelta |-> 9220, longitudeDelta |-> 4210]

\* Regions a caller may pass as initialRegion.
CallerRegions ==
    {[latitude |-> 4071280, longitude |-> -7400600,
      latitudeDelta |-> 5000, longitudeDelta |-> 5000]}

\* Coordinates the location service may report.
Coordinates ==
    {[latitude |-> 5150000, longitude |-> -12000],
     [latitude |-> 4885000, longitude |-> 235000]}

\* Regions the native map may report after a pan or zoom.
ReportedRegions ==
    {[latitude |-> 3500000, longitude |-> 13900000,
      latitudeDelta |-> 20000000, longitudeDelta |-> 40000000],
     [latitude |-> -3390000, longitude |-> 15120000,
      latitudeDelta |-> 1000, longitudeDelta |-> 1000]}

GeoErrorMessages == {"User denied Geolocation"}

PermissionStatuses == {"granted", "denied", "undetermined"}

\* `Error getting location: ${error.message}`
GeoErrorText(message) ==
    IF message = "User denied Geolocation"
    THEN "Error getting location: User denied Geolocation"
    ELSE "Error getting location: "

\* JavaScript truthiness of a string | null
Truthy(s) == s # Null /\ s # ""

El(name) == [el |-> name, latitude |-> 0, longitude |-> 0]

----------------------------------------------------------------------------
\* Web component (lines 68-233)

\* The component's props, state, refs and the browser objects it touches,
\* gathered so that a render pass is a function from record to record.
WebState ==
    [showUserLocation |-> showUserLocation, initialRegion |-> initialRegion,
     position |-> position, errorMsg |-> errorMsg, mapLoaded |-> mapLoaded,
     mapRef |-> mapRef, googleMapRef |-> googleMapRef,
     userMarkerRef |-> userMarkerRef, pendingGeo |-> pendingGeo,
     head |-> head, scriptState |-> scriptState, googleLoaded |-> googleLoaded,
     markers |-> markers, mapsCreated |-> mapsCreated,
     markersCreated |-> markersCreated, injected |-> injected,
     screen |-> screen]

WebAssign(r) ==
    /\ position' = r.position
    /\ errorMsg' = r.errorMsg
    /\ mapLoaded' = r.mapLoaded
    /\ mapRef' = r.mapRef
    /\ googleMapRef' = r.googleMapRef
    /\ userMarkerRef' = r.userMarkerRef
    /\ pendingGeo' = r.pendingGeo
    /\ head' = r.head
    /\ scriptState' = r.scriptState
    /\ googleLoaded' = r.googleLoaded
    /\ markers' = r.markers
    /\ mapsCreated' = r.mapsCreated
    /\ markersCreated' = r.markersCreated
    /\ injected' = r.injected
    /\ screen' = r.screen

\* mapRegion with the caller's region taking precedence over the reading.
mapRegion_CallerFirst(pos, initial) ==
    IF initial # NullRegion
    THEN initial
    ELSE IF pos # NullPosition
         THEN [latitude |-> pos.latitude, longitude |-> pos.longitude,
               latitudeDelta |-> 9220, longitudeDelta |-> 4210]
         ELSE defaultRegion

\* Lines 108-113.
mapRegion(pos, initial) ==
    IF pos # NullPosition
    THEN [latitude |-> pos.latitude, longitude |-> pos.longitude,
          latitudeDelta |-> 9220, longitudeDelta |-> 4210]
    ELSE IF initial # NullRegion THEN initial ELSE defaultRegion

\* Lines 224-232: the error text or the map container, by errorMsg.
WebRender(msg) ==
    IF Truthy(msg) THEN {El("errorText")} ELSE {El("mapDiv")}

\* Commit of a render: the tree is replaced and mapRef follows the div.
WebCommit(c) ==
    [c EXCEPT !.screen = WebRender(c.errorMsg),
              !.mapRef = (El("mapDiv") \in WebRender(c.errorMsg))]

\* LocationEffect without the tests of showUserLocation.
LocationEffect_IgnoresShow(c, r) ==
    IF geolocation
    THEN [r EXCEPT !.pendingGeo = @ + 1]
    ELSE [r EXCEPT !.errorMsg = "Geolocation is not supported by this browser"]

\* LocationEffect without the branch for a browser without geolocation.
LocationEffect_NoUnsupported(c, r) ==
    IF c.showUserLocation /\ geolocation
    THEN [r EXCEPT !.pendingGeo = @ + 1]
    ELSE r

\* Lines 91-105.  c is the render the effect closes over, r the running state.
\* Effects run in a browser only, where `typeof navigator` is never 'undefined'.
LocationEffect(c, r) ==
    IF c.showUserLocation /\ geolocation
    THEN [r EXCEPT !.pendingGeo = @ + 1]
    ELSE IF c.showUserLocation /\ ~geolocation
         THEN [r EXCEPT !.errorMsg = "Geolocation is not supported by this browser"]
         ELSE r

\* Lines 116-140, for the script element owned by `owner`.
InjectScript(r, owner) ==
    IF r.googleLoaded
    THEN [r EXCEPT !.loadedNow = TRUE]
    ELSE [r EXCEPT !.head = @ \cup {owner},
                   !.scriptState[owner] = "loading",
                   !.appended = @ + 1]

\* Lines 143-148, for the script element owned by `owner`.
RemoveScript(h, owner) ==
    IF owner \in h THEN h \ {owner} ELSE h

\* Lines 116-149 in this component.
ScriptEffect(c, r) ==
    LET s == InjectScript([head |-> r.head, scriptState |-> r.scriptState,
                           googleLoaded |-> r.googleLoaded,
                           loadedNow |-> FALSE, appended |-> 0], "main")
    IN [r EXCEPT !.head = s.head, !.scriptState = s.scriptState,
                 !.mapLoaded = IF s.loadedNow THEN TRUE ELSE @,
                 !.injected = @ + s.appended]

ScriptCleanup(r) == [r EXCEPT !.head = RemoveScript(@, "main")]

\* Math.log2 in fixed point.  The argument is a positive number in 16ths, the
\* result is in 128ths (seven binary places, rounded down).  Normalise
\* brings the argument into [2^14, 2^15) counting the halvings; FractionBits
\* produces the binary places by repeated squaring.
RECURSIVE Normalise(_, _)
Normalise(m, e) ==
    IF m >= 32768 THEN Normalise(m \div 2, e + 1)
    ELSE IF m < 16384 THEN Normalise(m * 2, e - 1)
         ELSE <<m, e>>

RECURSIVE FractionBits(_, _, _)
FractionBits(m, k, acc) ==
    IF k = 0 THEN acc
    ELSE LET sq == (m * m) \div 16384
         IN IF sq >= 32768
            THEN FractionBits(sq \div 2, k - 1, 2 * acc + 1)
            ELSE FractionBits(sq, k - 1, 2 * acc)

log2(x16) ==
    LET n == Normalise(x16, 0)
    IN (n[2] + 10) * 128 + FractionBits(n[1], 7, 0)

\* The zoom with 2 subtracted instead of 2.5.
zoom_MinusTwo(latitudeDelta) ==
    log2((36000000 * 16) \div latitudeDelta) - 256

\* Line 157: Math.log2(360 / mapRegion.latitudeDelta) - 2.5, in 128ths of a
\* zoom level; latitudeDelta is in 10^-5 degrees.
zoom(latitudeDelta) ==
    log2((36000000 * 16) \div latitudeDelta) - 320

\* MapInitEffect guarded by window.google.maps alone, not by mapLoaded.
MapInitEffect_NoLoadedGuard(c, r) ==
    IF ~r.mapRef \/ ~r.googleLoaded
    THEN r
    ELSE LET mr == mapRegion(c.position, c.initialRegion)
         IN [r EXCEPT !.googleMapRef =
                          [id |-> r.mapsCreated + 1, latitude |-> mr.latitude,
                           longitude |-> mr.longitude,
                           latitudeDelta |-> mr.latitudeDelta,
                           zoom |-> zoom(mr.latitudeDelta)],
                      !.mapsCreated = @ + 1]

\* Lines 152-175.
MapInitEffect(c, r) ==
    IF ~c.mapLoaded \/ ~r.mapRef \/ ~r.googleLoaded
    THEN r
    ELSE LET mr == mapRegion(c.position, c.initialRegion)
         IN [r EXCEPT !.googleMapRef =
                          [id |-> r.mapsCreated + 1, latitude |-> mr.latitude,
                           longitude |-> mr.longitude,
                           latitudeDelta |-> mr.latitudeDelta,
                           zoom |-> zoom(mr.latitudeDelta)],
                      !.mapsCreated = @ + 1]

\* MarkerEffect constructing a marker without looking at the handle.
MarkerEffect_AlwaysCreate(c, r) ==
    IF r.googleMapRef = NullMap \/ c.position = NullPosition
       \/ ~c.showUserLocation \/ ~r.googleLoaded
    THEN IF r.userMarkerRef # 0 /\ ~c.showUserLocation
         THEN [r EXCEPT !.markers = {m \in @ : m.id # r.userMarkerRef},
                        !.userMarkerRef = 0]
         ELSE r
    ELSE [r EXCEPT !.markers = @ \cup
                       {[id |-> r.markersCreated + 1,
                         map |-> r.googleMapRef.id,
                         latitude |-> c.position.latitude,
                         longitude |-> c.position.longitude]},
                   !.userMarkerRef = r.markersCreated + 1,
                   !.markersCreated = @ + 1]

\* Lines 178-222.
MarkerEffect(c, r) ==
    IF r.googleMapRef = NullMap \/ c.position = NullPosition
       \/ ~c.showUserLocation \/ ~r.googleLoaded
    THEN IF r.userMarkerRef # 0 /\ ~c.showUserLocation
         THEN [r EXCEPT !.markers = {m \in @ : m.id # r.userMarkerRef},
                        !.userMarkerRef = 0]
         ELSE r
    ELSE IF r.userMarkerRef = 0
         THEN [r EXCEPT !.markers = @ \cup
                            {[id |-> r.markersCreated + 1,
                              map |-> r.googleMapRef.id,
                              latitude |-> c.position.latitude,
                              longitude |-> c.position.longitude]},
                        !.userMarkerRef = r.markersCreated + 1,
                        !.markersCreated = @ + 1]
         ELSE [r EXCEPT !.markers =
                            {IF m.id = r.userMarkerRef
                             THEN [m EXCEPT !.latitude = c.position.latitude,
                                            !.longitude = c.position.longitude]
                             ELSE m : m \in @}]

\* Dependency arrays: lines 105, 149, 175, 222.
\* The location effect without a dependency array: it runs after every render.
LocationDepsChanged_EveryRender(p, c) == TRUE

LocationDepsChanged(p, c) == p.showUserLocation # c.showUserLocation

\* The script effect keyed on showUserLocation instead of [].
ScriptDepsChanged_OnShow(p, c) == p.showUserLocation # c.showUserLocation

ScriptDepsChanged(p, c) == FALSE

MapInitDepsChanged(p, c) ==
    LET a == mapRegion(p.position, p.initialRegion)
        b == mapRegion(c.position, c.initialRegion)
    IN \/ p.mapLoaded # c.mapLoaded
       \/ a.latitude # b.latitude
       \/ a.longitude # b.longitude
       \/ a.latitudeDelta # b.latitudeDelta

\* The marker effect's dependency array without showUserLocation.
MarkerDepsChanged_NoShow(p, c) ==
    \/ p.position # c.position
    \/ p.mapLoaded # c.mapLoaded

MarkerDepsChanged(p, c) ==
    \/ p.position # c.position
    \/ p.showUserLocation # c.showUserLocation
    \/ p.mapLoaded # c.mapLoaded

\* One render of props and state c after the render of p: commit, then the
\* effects whose dependencies changed (all of them on mount), in order.
RenderPass(p, c, isMount) ==
    LET r0 == WebCommit(c)
        r1 == IF isMount \/ LocationDepsChanged(p, c)
              THEN LocationEffect(c, r0) ELSE r0
        r2 == IF isMount THEN ScriptEffect(c, r1)
              ELSE IF ScriptDepsChanged(p, c)
                   THEN ScriptEffect(c, ScriptCleanup(r1)) ELSE r1
        r3 == IF isMount \/ MapInitDepsChanged(p, c)
              THEN MapInitEffect(c, r2) ELSE r2
        r4 == IF isMount \/ MarkerDepsChanged(p, c)
              THEN MarkerEffect(c, r3) ELSE r3
    IN r4

\* A render and the render that follows it when an effect set state.
Render(p, c, isMount) ==
    LET c1 == RenderPass(p, c, isMount)
    IN RenderPass(c, c1, FALSE)

WebMount ==
    /\ platform = "web" /\ mounted = "no"
    /\ mounted' = "yes"
    /\ WebAssign(Render(WebState, WebState, TRUE))
    /\ UNCHANGED <<platform, showUserLocation, initialRegion, geolocation,
                   peerMounted, toggles, regionChanges, readings>>
    /\ UNCHANGED nativeVars

\* The parent re-renders Maps with the other value of showUserLocation.
WebSetShowUserLocation ==
    /\ platform = "web" /\ mounted = "yes"
    /\ toggles < MaxToggles
    /\ toggles' = toggles + 1
    /\ showUserLocation' = ~showUserLocation
    /\ WebAssign(Render(WebState,
                        [WebState EXCEPT !.showUserLocation = ~showUserLocation],
                        FALSE))
    /\ UNCHANGED <<platform, mounted, initialRegion, geolocation, peerMounted,
                   regionChanges, readings>>
    /\ UNCHANGED nativeVars

\* The parent re-renders Maps with another initialRegion.
WebSetInitialRegion(newRegion) ==
    /\ platform = "web" /\ mounted = "yes"
    /\ regionChanges < MaxRegionChanges
    /\ newRegion # initialRegion
    /\ regionChanges' = regionChanges + 1
    /\ initialRegion' = newRegion
    /\ WebAssign(Render(WebState,
                        [WebState EXCEPT !.initialRegion = newRegion], FALSE))
    /\ UNCHANGED <<platform, mounted, showUserLocation, geolocation,
                   peerMounted, toggles, readings>>
    /\ UNCHANGED nativeVars

\* Lines 94-96: the success callback of getCurrentPosition.
GeoSuccess(coords) ==
    /\ platform = "web" /\ pendingGeo > 0
    /\ readings' = readings + 1
    /\ IF mounted = "yes"
       THEN LET reading == [serial |-> readings + 1,
                            latitude |-> coords.latitude,
                            longitude |-> coords.longitude]
                w == [WebState EXCEPT !.pendingGeo = @ - 1]
            IN WebAssign(Render(w, [w EXCEPT !.position = reading], FALSE))
       ELSE WebAssign([WebState EXCEPT !.pendingGeo = @ - 1])
    /\ UNCHANGED <<platform, mounted, showUserLocation, initialRegion,
                   geolocation, peerMounted, toggles, regionChanges>>
    /\ UNCHANGED nativeVars

\* Lines 97-99: the error callback of getCurrentPosition.
GeoError(message) ==
    /\ platform = "web" /\ pendingGeo > 0
    /\ IF mounted = "yes"
       THEN LET w == [WebState EXCEPT !.pendingGeo = @ - 1]
            IN WebAssign(Render(w, [w EXCEPT !.errorMsg = GeoErrorText(message)],
                                FALSE))
       ELSE WebAssign([WebState EXCEPT !.pendingGeo = @ - 1])
    /\ UNCHANGED <<platform, mounted, showUserLocation, initialRegion,
                   geolocation, peerMounted, toggles, regionChanges, readings>>
    /\ UNCHANGED nativeVars

\* Lines 130-132: a provider script finishes loading; it defines
\* window.google.maps and its onload handler runs.  A script element removed
\* from document.head while loading may still load; setMapLoaded on an
\* unmounted component does nothing.
ScriptOnload(owner) ==
    /\ platform = "web" /\ scriptState[owner] = "loading"
    /\ LET w == [WebState EXCEPT !.scriptState[owner] = "loaded",
                                 !.googleLoaded = TRUE]
       IN IF owner = "main" /\ mounted = "yes"
          THEN WebAssign(Render(w, [w EXCEPT !.mapLoaded = TRUE], FALSE))
          ELSE WebAssign(w)
    /\ UNCHANGED <<platform, mounted, showUserLocation, initialRegion,
                   geolocation, peerMounted, toggles, regionChanges, readings>>
    /\ UNCHANGED nativeVars

\* Lines 134-137: a provider script fails to load.
ScriptOnerror(owner) ==
    /\ platform = "web" /\ scriptState[owner] = "loading"
    /\ LET w == [WebState EXCEPT !.scriptState[owner] = "failed"]
       IN IF owner = "main" /\ mounted = "yes"
          THEN WebAssign(Render(w, [w EXCEPT !.errorMsg =
                                        "Failed to load Google Maps"], FALSE))
          ELSE WebAssign(w)
    /\ UNCHANGED <<platform, mounted, showUserLocation, initialRegion,
                   geolocation, peerMounted, toggles, regionChanges, readings>>
    /\ UNCHANGED nativeVars

\* Unmount: the cleanup of lines 143-148 runs, the tree and the div go away.
WebUnmount ==
    /\ platform = "web" /\ mounted = "yes"
    /\ mounted' = "gone"
    /\ WebAssign([ScriptCleanup(WebState) EXCEPT !.screen = {}, !.mapRef = FALSE])
    /\ UNCHANGED <<platform, showUserLocation, initialRegion, geolocation,
                   peerMounted, toggles, regionChanges, readings>>
    /\ UNCHANGED nativeVars

\* Another Maps component on the same page mounts: its script effect
\* (lines 116-140) acts on the same document.head and window.google.
PeerMount ==
    /\ platform = "web" /\ peerMounted = "no"
    /\ peerMounted' = "yes"
    /\ LET s == InjectScript([head |-> head, scriptState |-> scriptState,
                              googleLoaded |-> googleLoaded,
                              loadedNow |-> FALSE, appended |-> 0], "peer")
       IN /\ head' = s.head
          /\ scriptState' = s.scriptState
    /\ UNCHANGED <<platform, mounted, showUserLocation, initialRegion, errorMsg,
                   screen, position, mapLoaded, mapRef, googleMapRef,
                   userMarkerRef, geolocation, pendingGeo, googleLoaded,
                   markers, toggles, regionChanges, readings, mapsCreated,
                   markersCreated, injected>>
    /\ UNCHANGED nativeVars

\* The other component unmounts: its cleanup (lines 143-148) runs.
PeerUnmount ==
    /\ platform = "web" /\ peerMounted = "yes"
    /\ peerMounted' = "gone"
    /\ head' = RemoveScript(head, "peer")
    /\ UNCHANGED <<platform, mounted, showUserLocation, initialRegion, errorMsg,
                   screen, position, mapLoaded, mapRef, googleMapRef,
                   userMarkerRef, geolocation, pendingGeo, scriptState,
                   googleLoaded, markers, toggles, regionChanges, readings,
                   mapsCreated, markersCreated, injected>>
    /\ UNCHANGED nativeVars

----------------------------------------------------------------------------
\* Native component (lines 268-367)

\* Lines 325-366: the error text, or the MapView with a Marker when a
\* location is held.
NativeRender(msg, loc) ==
    IF Truthy(msg)
    THEN {El("errorText")}
    ELSE {El("MapView")} \cup
         (IF loc # NullPosition
          THEN {[el |-> "Marker", latitude |-> loc.latitude,
                 longitude |-> loc.longitude]}
          ELSE {})

\* The location effect without the test of showUserLocation.
NativeLocationEffect_IgnoresShow(show, waiting) == waiting + 1

\* Lines 286-290: one run of the location effect, up to its first await.
NativeLocationEffect(show, waiting) ==
    IF show THEN waiting + 1 ELSE waiting

\* Line 281: useState(initialRegion || defaultRegion).
InitialRegionState(initial) ==
    IF initial # NullRegion THEN initial ELSE defaultRegion

NativeMount ==
    /\ platform = "native" /\ mounted = "no"
    /\ mounted' = "yes"
    /\ region' = InitialRegionState(initialRegion)
    /\ location' = NullPosition
    /\ errorMsg' = Null
    /\ screen' = NativeRender(Null, NullPosition)
    /\ awaitingPermission' = NativeLocationEffect(showUserLocation,
                                                  awaitingPermission)
    /\ UNCHANGED <<platform, showUserLocation, initialRegion, geolocation,
                   awaitingPosition, statuses, toggles, readings>>
    /\ UNCHANGED <<status, positionRequests, reported>>
    /\ UNCHANGED webVars

\* The parent re-renders Maps with the other value of showUserLocation; the
\* effect of lines 286-318 runs again.
NativeSetShowUserLocation ==
    /\ platform = "native" /\ mounted = "yes"
    /\ toggles < MaxToggles
    /\ toggles' = toggles + 1
    /\ showUserLocation' = ~showUserLocation
    /\ screen' = NativeRender(errorMsg, location)
    /\ awaitingPermission' = NativeLocationEffect(~showUserLocation,
                                                  awaitingPermission)
    /\ UNCHANGED <<platform, mounted, initialRegion, errorMsg, geolocation,
                   region, location, awaitingPosition, statuses, readings>>
    /\ UNCHANGED <<status, positionRequests, reported>>
    /\ UNCHANGED webVars

\* PermissionResult without the return of line 293: a status other than
\* 'granted' sets the error and the run goes on to ask for the position.
PermissionResult_NoReturn(st) ==
    /\ platform = "native" /\ awaitingPermission > 0
    /\ awaitingPermission' = awaitingPermission - 1
    /\ statuses' = statuses \cup {st}
    /\ status' = st
    /\ positionRequests' = positionRequests + 1
    /\ awaitingPosition' = awaitingPosition + 1
    /\ errorMsg' = IF st # "granted" /\ mounted = "yes"
                   THEN "Permission to access location was denied"
                   ELSE errorMsg
    /\ screen' = IF mounted = "yes" THEN NativeRender(errorMsg', location)
                 ELSE screen
    /\ UNCHANGED <<platform, mounted, showUserLocation, initialRegion,
                   geolocation, region, location, toggles, readings>>
    /\ UNCHANGED reported
    /\ UNCHANGED webVars

\* Lines 290-303: requestForegroundPermissionsAsync resolves.
PermissionResult(st) ==
    /\ platform = "native" /\ awaitingPermission > 0
    /\ awaitingPermission' = awaitingPermission - 1
    /\ statuses' = statuses \cup {st}
    /\ status' = st
    /\ positionRequests' = IF st = "granted" THEN positionRequests + 1
                           ELSE positionRequests
    /\ IF st # "granted"
       THEN /\ errorMsg' = IF mounted = "yes"
                           THEN "Permission to access location was denied"
                           ELSE errorMsg
            /\ awaitingPosition' = awaitingPosition
       ELSE /\ errorMsg' = errorMsg
            /\ awaitingPosition' = awaitingPosition + 1
    /\ screen' = IF mounted = "yes" THEN NativeRender(errorMsg', location)
                 ELSE screen
    /\ UNCHANGED <<platform, mounted, showUserLocation, initialRegion,
                   geolocation, region, location, toggles, readings>>
    /\ UNCHANGED reported
    /\ UNCHANGED webVars

\* PositionResult clearing the error message when a reading arrives.
PositionResult_ClearsError(coords) ==
    /\ platform = "native" /\ awaitingPosition > 0
    /\ awaitingPosition' = awaitingPosition - 1
    /\ readings' = readings + 1
    /\ IF mounted = "yes"
       THEN /\ location' = [serial |-> readings + 1,
                            latitude |-> coords.latitude,
                            longitude |-> coords.longitude]
            /\ region' = [latitude |-> coords.latitude,
                          longitude |-> coords.longitude,
                          latitudeDelta |-> 9220, longitudeDelta |-> 4210]
            /\ errorMsg' = Null
            /\ screen' = NativeRender(Null, location')
       ELSE UNCHANGED <<location, region, screen, errorMsg>>
    /\ UNCHANGED <<platform, mounted, showUserLocation, initialRegion,
                   geolocation, awaitingPermission, statuses, toggles>>
    /\ UNCHANGED <<status, positionRequests, reported>>
    /\ UNCHANGED webVars

\* Lines 303-312: getCurrentPositionAsync resolves.
PositionResult(coords) ==
    /\ platform = "native" /\ awaitingPosition > 0
    /\ awaitingPosition' = awaitingPosition - 1
    /\ readings' = readings + 1
    /\ IF mounted = "yes"
       THEN /\ location' = [serial |-> readings + 1,
                            latitude |-> coords.latitude,
                            longitude |-> coords.longitude]
            /\ region' = [latitude |-> coords.latitude,
                          longitude |-> coords.longitude,
                          latitudeDelta |-> 9220, longitudeDelta |-> 4210]
            /\ screen' = NativeRender(errorMsg, location')
       ELSE UNCHANGED <<location, region, screen>>
    /\ UNCHANGED <<platform, mounted, showUserLocation, initialRegion, errorMsg,
                   geolocation, awaitingPermission, statuses, toggles>>
    /\ UNCHANGED <<status, positionRequests, reported>>
    /\ UNCHANGED webVars

\* Lines 313-315: getCurrentPositionAsync rejects.
PositionThrows ==
    /\ platform = "native" /\ awaitingPosition > 0
    /\ awaitingPosition' = awaitingPosition - 1
    /\ errorMsg' = IF mounted = "yes"
                   THEN "Error getting current location on native device"
                   ELSE errorMsg
    /\ screen' = IF mounted = "yes" THEN NativeRender(errorMsg', location)
                 ELSE screen
    /\ UNCHANGED <<platform, mounted, showUserLocation, initialRegion,
                   geolocation, region, location, awaitingPermission, statuses,
                   toggles, readings>>
    /\ UNCHANGED <<status, positionRequests, reported>>
    /\ UNCHANGED webVars

\* onRegionChange clamping the latitude span to 180 degrees before storing.
onRegionChange_Clamped(newRegion) ==
    /\ platform = "native" /\ mounted = "yes"
    /\ El("MapView") \in screen
    /\ reported' = newRegion
    /\ region' = [newRegion EXCEPT !.latitudeDelta =
                                       IF @ > 18000000 THEN 18000000 ELSE @]
    /\ screen' = NativeRender(errorMsg, location)
    /\ UNCHANGED <<platform, mounted, showUserLocation, initialRegion, errorMsg,
                   geolocation, location, awaitingPermission, awaitingPosition,
                   statuses, toggles, readings>>
    /\ UNCHANGED <<status, positionRequests>>
    /\ UNCHANGED webVars

\* Lines 321-323, called by the MapView (line 335) after a pan or zoom.
onRegionChange(newRegion) ==
    /\ platform = "native" /\ mounted = "yes"
    /\ El("MapView") \in screen
    /\ reported' = newRegion
    /\ region' = newRegion
    /\ screen' = NativeRender(errorMsg, location)
    /\ UNCHANGED <<platform, mounted, showUserLocation, initialRegion, errorMsg,
                   geolocation, location, awaitingPermission, awaitingPosition,
                   statuses, toggles, readings>>
    /\ UNCHANGED <<status, positionRequests>>
    /\ UNCHANGED webVars

NativeUnmount ==
    /\ platform = "native" /\ mounted = "yes"
    /\ mounted' = "gone"
    /\ screen' = {}
    /\ UNCHANGED <<platform, showUserLocation, initialRegion, errorMsg,
                   geolocation, region, location, awaitingPermission,
                   awaitingPosition, statuses, toggles, readings>>
    /\ UNCHANGED <<status, positionRequests, reported>>
    /\ UNCHANGED webVars

----------------------------------------------------------------------------
\* The state before the component mounts: the bundler has picked one
\* implementation, the caller has chosen the props.
Init ==
    /\ platform \in {"web", "native"}
    /\ mounted = "no"
    /\ showUserLocation \in BOOLEAN
    /\ initialRegion \in {NullRegion} \cup CallerRegions
    /\ errorMsg = Null
    /\ screen = {}
    /\ position = NullPosition
    /\ mapLoaded = FALSE
    /\ mapRef = FALSE
    /\ googleMapRef = NullMap
    /\ userMarkerRef = 0
    /\ geolocation \in (IF platform = "web" THEN BOOLEAN ELSE {TRUE})
    /\ pendingGeo = 0
    /\ head = {}
    /\ scriptState = [s \in {"main", "peer"} |-> "none"]
    /\ googleLoaded = FALSE
    /\ peerMounted = "no"
    /\ markers = {}
    /\ region = NullRegion
    /\ location = NullPosition
    /\ awaitingPermission = 0
    /\ awaitingPosition = 0
    /\ statuses = {}
    /\ status = "none"
    /\ positionRequests = 0
    /\ reported = NullRegion
    /\ toggles = 0
    /\ regionChanges = 0
    /\ readings = 0
    /\ mapsCreated = 0
    /\ markersCreated = 0
    /\ injected = 0

Next ==
    \/ WebMount
    \/ WebSetShowUserLocation
    \/ \E r \in {NullRegion} \cup CallerRegions : WebSetInitialRegion(r)
    \/ \E c \in Coordinates : GeoSuccess(c)
    \/ \E m \in GeoErrorMessages : GeoError(m)
    \/ \E s \in {"main", "peer"} : ScriptOnload(s)
    \/ \E s \in {"main", "peer"} : ScriptOnerror(s)
    \/ WebUnmount
    \/ PeerMount
    \/ PeerUnmount
    \/ NativeMount
    \/ NativeSetShowUserLocation
    \/ \E st \in PermissionStatuses : PermissionResult(st)
    \/ \E c \in Coordinates : PositionResult(c)
    \/ PositionThrows
    \/ \E r \in ReportedRegions : onRegionChange(r)
    \/ NativeUnmount

Spec == Init /\ [][Next]_vars

----------------------------------------------------------------------------
\* What the user sees.

ErrorShown == El("errorText") \in screen

MapWidgetShown == El("mapDiv") \in screen \/ El("MapView") \in screen

MarkersOnScreen == {e \in screen : e.el = "Marker"}

\* showUserLocation has been true in some render of this mount.
LocationWasRequested == showUserLocation \/ toggles > 0

\* C1: the error text and the map widget (web: the map container div,
\* native: MapView) are never rendered together; and while the component is
\* mounted, once a permission request has returned a status other than
\* 'granted' (native) or showUserLocation has been true in a browser without
\* geolocation (web), the error text is shown and the map widget is not
\* mounted.
C1_ErrorExcludesMap ==
    /\ ~(ErrorShown /\ MapWidgetShown)
    /\ (platform = "web" /\ mounted = "yes" /\ ~geolocation
            /\ LocationWasRequested)
          => (ErrorShown /\ ~MapWidgetShown /\ ~mapRef)
    /\ (platform = "native" /\ mounted = "yes" /\ statuses \ {"granted"} # {})
          => (ErrorShown /\ ~MapWidgetShown)

\* Permission was denied on native after an earlier grant: the error text
\* has replaced the MapView.
C1_Witness ==
    /\ platform = "native" /\ mounted = "yes"
    /\ statuses = {"granted", "denied"}
    /\ ErrorShown /\ ~MapWidgetShown

\* The marker the claim C2 asks for: exactly one, at the coordinates of the
\* reading held (web: a google.maps.Marker attached to the map held in
\* googleMapRef; native: a Marker element in the MapView).
OneMarkerAtReading ==
    IF platform = "web"
    THEN /\ googleMapRef # NullMap
         /\ markers = {[id |-> userMarkerRef, map |-> googleMapRef.id,
                        latitude |-> position.latitude,
                        longitude |-> position.longitude]}
    ELSE /\ El("MapView") \in screen
         /\ MarkersOnScreen = {[el |-> "Marker",
                                latitude |-> location.latitude,
                                longitude |-> location.longitude]}

ReadingHeld ==
    IF platform = "web" THEN position # NullPosition
    ELSE location # NullPosition

\* C2: whenever a reading has been received with showUserLocation true (no
\* error has been reported and, on web, the script's load callback has fired,
\* in either order with the reading), exactly one marker exists on the map,
\* at the coordinates of the reading.
C2_MarkerAtReading ==
    (mounted = "yes" /\ showUserLocation /\ ReadingHeld /\ ~Truthy(errorMsg)
        /\ (platform = "web" => mapLoaded))
        => OneMarkerAtReading

C4_Step ==
    /\ Cardinality(markers') <= 1
    /\ \A m \in markers' : m.id = userMarkerRef'
    /\ (userMarkerRef' = 0) <=> (markers' = {})
    /\ markersCreated' # markersCreated
          => (userMarkerRef = 0 /\ markersCreated' = markersCreated + 1)
    /\ (userMarkerRef # 0 /\ position' # position)
          => /\ markersCreated' = markersCreated
             /\ userMarkerRef' = userMarkerRef
             /\ \A m \in markers' : /\ m.latitude = position'.latitude
                                    /\ m.longitude = position'.longitude

C4_AtMostOneMarker == [][C4_Step]_vars

\* A second reading has moved the marker the first reading created.
C4_Witness ==
    /\ platform = "web" /\ mounted = "yes"
    /\ position.serial = 2 /\ markersCreated = 1
    /\ \E m \in markers : /\ m.id = userMarkerRef
                          /\ m.latitude = position.latitude
                          /\ m.longitude = position.longitude

\* C5: when showUserLocation changes from true to false while a marker
\* exists, the marker is detached from its map and the handle is cleared; and
\* no marker is on a map while showUserLocation is false.
C5_Step ==
    /\ (platform = "web" /\ mounted = "yes" /\ userMarkerRef # 0
            /\ showUserLocation /\ ~showUserLocation')
          => (markers' = {} /\ userMarkerRef' = 0)
    /\ (platform = "web" /\ ~showUserLocation')
          => (markers' = {} /\ userMarkerRef' = 0)

C5_MarkerRemovedOnToggleOff == [][C5_Step]_vars

\* A marker was created, then showUserLocation went off and it is gone.
C5_Witness ==
    /\ platform = "web" /\ mounted = "yes" /\ ~showUserLocation
    /\ markersCreated = 1 /\ markers = {} /\ userMarkerRef = 0
    /\ position # NullPosition /\ googleMapRef # NullMap

\* C6: in the native component no Marker is rendered while showUserLocation
\* is false.
C6_NoMarkerWhenOff ==
    (platform = "native" /\ mounted = "yes" /\ ~showUserLocation)
        => MarkersOnScreen = {}

\* C7: the component appends its provider script element at most once per
\* mount, whatever re-renders happen; and when it unmounts while its script
\* is still loading, the element is out of document.head after the cleanup
\* and stays out.
C7_Step ==
    /\ injected' <= 1
    /\ (platform = "web" /\ mounted = "yes" /\ mounted' = "gone"
            /\ scriptState["main"] = "loading")
          => "main" \notin head'
    /\ (platform = "web" /\ mounted = "gone") => "main" \notin head'

C7_ScriptInjectedOnce == [][C7_Step]_vars

\* The component re-rendered, then unmounted before its script loaded.
C7_Witness ==
    /\ platform = "web" /\ mounted = "gone"
    /\ scriptState["main"] = "loading" /\ injected = 1
    /\ toggles > 0 /\ "main" \notin head

\* C8: document.head never holds two provider script elements.
C8_SingleScriptElement == Cardinality(head) <= 1

\* The viewport the claim C9 prescribes, from the reading held and the
\* caller's region.
ExpectedViewport(reading, caller) ==
    IF reading # NullPosition
    THEN [latitude |-> reading.latitude, longitude |-> reading.longitude,
          latitudeDelta |-> 9220, longitudeDelta |-> 4210]
    ELSE IF caller # NullRegion
         THEN caller
         ELSE [latitude |-> 3778825, longitude |-> -12243240,
               latitudeDelta |-> 9220, longitudeDelta |-> 4210]

MapShowsViewport(map, v) ==
    /\ map.latitude = v.latitude
    /\ map.longitude = v.longitude
    /\ map.latitudeDelta = v.latitudeDelta

\* C9: the viewport is the region of the reading if one is held, else the
\* caller's initialRegion, else (37.78825, -122.4324, 0.0922, 0.0421).  Web:
\* every map object is constructed with that center and latitude delta, and
\* the map on display has them.  Native: the region state is that region at
\* mount and whenever a reading is stored.
C9_Step ==
    /\ (platform = "web" /\ googleMapRef' # googleMapRef)
          => MapShowsViewport(googleMapRef',
                              ExpectedViewport(position', initialRegion'))
    /\ (platform = "web" /\ mounted' = "yes" /\ googleMapRef' # NullMap
            /\ ~ErrorShown')
          => MapShowsViewport(googleMapRef',
                              ExpectedViewport(position', initialRegion'))
    /\ (platform = "native" /\ mounted = "no" /\ mounted' = "yes")
          => region' = ExpectedViewport(NullPosition, initialRegion')
    /\ (platform = "native" /\ location' # location)
          => region' = ExpectedViewport(location', initialRegion')

C9_ViewportSelection == [][C9_Step]_vars

\* No caller region, no reading: the web map was constructed at the default.
C9_Witness ==
    /\ platform = "web" /\ mounted = "yes"
    /\ initialRegion = NullRegion /\ position = NullPosition
    /\ regionChanges = 0
    /\ googleMapRef.id = 1
    /\ googleMapRef.latitude = 3778825
    /\ googleMapRef.longitude = -12243240
    /\ googleMapRef.latitudeDelta = 9220

\* C10: once the error callback of the component's script has fired, the
\* error text is on screen while the component is mounted, mapLoaded is
\* false and no map object or marker has been or is constructed.
C10_ScriptErrorIsTerminal ==
    (platform = "web" /\ scriptState["main"] = "failed")
        => /\ ~mapLoaded
           /\ googleMapRef = NullMap /\ mapsCreated = 0
           /\ markers = {} /\ userMarkerRef = 0 /\ markersCreated = 0
           /\ mounted = "yes" => (ErrorShown /\ ~MapWidgetShown /\ ~mapRef)

\* After the script error a reading arrived, showUserLocation was toggled
\* and window.google.maps was defined by another component's script.
C10_Witness ==
    /\ platform = "web" /\ mounted = "yes"
    /\ scriptState["main"] = "failed"
    /\ position # NullPosition /\ toggles > 0 /\ googleLoaded
    /\ ErrorShown /\ mapsCreated = 0

\* The renders of this mount in which the location effect ran with
\* showUserLocation true: the mount if the prop was true, and every change
\* of the prop to true.
RunsWithLocation ==
    IF mounted = "no" THEN 0
    ELSE IF showUserLocation THEN toggles \div 2 + 1
         ELSE (toggles + 1) \div 2

LocationRequestsOutstanding ==
    IF platform = "web" THEN pendingGeo
    ELSE awaitingPermission + awaitingPosition

ScriptLoadsOutstanding ==
    IF platform = "web" /\ scriptState["main"] = "loading" THEN 1 ELSE 0

\* C11 as stated: at most one asynchronous request of the instance (location
\* request or script load) is outstanding at a time.
C11_Original == LocationRequestsOutstanding + ScriptLoadsOutstanding <= 1

\* C11 amended: a location request is issued only by a run of the location
\* effect with showUserLocation true (the mount, or the prop turning true),
\* one per run, whether or not an earlier request or the script load is still
\* outstanding; so the location requests outstanding never exceed the number
\* of such runs, and at most one is outstanding while showUserLocation has
\* not changed since mount.
C11_Step ==
    /\ LocationRequestsOutstanding' <= RunsWithLocation'
    /\ LocationRequestsOutstanding' > LocationRequestsOutstanding
          => /\ LocationRequestsOutstanding' = LocationRequestsOutstanding + 1
             /\ showUserLocation'
             /\ mounted = "no" \/ ~showUserLocation

C11_OneRequestPerEffectRun == [][C11_Step]_vars

\* Two location requests and the script load are outstanding together.
C11_Witness ==
    /\ platform = "web" /\ mounted = "yes"
    /\ pendingGeo = 2 /\ scriptState["main"] = "loading"

\* C12 as stated: getCurrentPositionAsync is called at most once per mount.
C12_Original == positionRequests <= 1

\* C12 amended: getCurrentPositionAsync is called at most once per run of the
\* location effect with showUserLocation true (once if showUserLocation never
\* changes), and only in a step in which a permission request returns
\* 'granted'.
C12_Step ==
    /\ positionRequests' + awaitingPermission' <= RunsWithLocation'
    /\ positionRequests' # positionRequests
          => /\ positionRequests' = positionRequests + 1
             /\ awaitingPermission' = awaitingPermission - 1
             /\ status' = "granted"

C12_OnePositionRequestPerEffectRun == [][C12_Step]_vars

\* showUserLocation went off and on again, and the position was asked twice.
C12_Witness ==
    /\ platform = "native" /\ mounted = "yes"
    /\ positionRequests = 2 /\ toggles = 2

\* C13: when a permission request returns a status other than 'granted', no
\* position request is made, errorMsg becomes the permission-denied text and
\* location and region are left unchanged; when getCurrentPositionAsync
\* throws, errorMsg becomes the generic text and location and region are left
\* unchanged; in both cases the error text replaces the MapView and the run
\* issues no further permission or position request.
C13_Step ==
    /\ (platform = "native" /\ awaitingPermission' = awaitingPermission - 1
            /\ status' # "granted")
          => /\ positionRequests' = positionRequests
             /\ awaitingPosition' = awaitingPosition
             /\ location' = location /\ region' = region
             /\ mounted = "yes"
                   => /\ errorMsg' = "Permission to access location was denied"
                      /\ ErrorShown' /\ ~MapWidgetShown'
    /\ (platform = "native" /\ awaitingPosition' = awaitingPosition - 1
            /\ readings' = readings)
          => /\ positionRequests' = positionRequests
             /\ awaitingPermission' = awaitingPermission
             /\ location' = location /\ region' = region
             /\ mounted = "yes"
                   => /\ errorMsg' =
                             "Error getting current location on native device"
                      /\ ErrorShown' /\ ~MapWidgetShown'

C13_NativeFailureHandling == [][C13_Step]_vars

\* The position request threw after a grant; the generic text is shown and
\* nothing is pending.
C13_Witness ==
    /\ platform = "native" /\ mounted = "yes"
    /\ status = "granted" /\ positionRequests = 1 /\ readings = 0
    /\ awaitingPermission = 0 /\ awaitingPosition = 0
    /\ errorMsg = "Error getting current location on native device"
    /\ ErrorShown /\ ~MapWidgetShown

\* C14: a region reported by the MapView becomes the region state exactly as
\* reported, and location and errorMsg are left unchanged.
C14_Step ==
    (platform = "native" /\ reported' # reported)
        => /\ region' = reported'
           /\ location' = location
           /\ errorMsg' = errorMsg

C14_RegionStoredVerbatim == [][C14_Step]_vars

\* A reported latitude span of 200 degrees is stored as it is, after a
\* reading had centred the map.
C14_Witness ==
    /\ platform = "native" /\ mounted = "yes"
    /\ location # NullPosition
    /\ reported.latitudeDelta = 20000000
    /\ region = reported

RECURSIVE Pow2(_)
Pow2(n) == IF n = 0 THEN 1 ELSE 2 * Pow2(n - 1)

\* zoom + 2.5 lies between two consecutive integers n and n + 1 exactly when
\* 2^n <= 360 / latitudeDelta < 2^(n+1).
ZoomInvertsToDelta(map) ==
    LET n == (map.zoom + 320) \div 128
    IN /\ Pow2(n) * map.latitudeDelta <= 36000000
       /\ 36000000 < Pow2(n + 1) * map.latitudeDelta

\* C15 as stated: for latitudeDelta = 0.0922 the zoom passed to the map
\* constructor is approximately 9.47 (within 0.01, in 128ths).
C15_Original ==
    (platform = "web" /\ googleMapRef # NullMap
        /\ googleMapRef.latitudeDelta = 9220)
        => (googleMapRef.zoom >= 1211 /\ googleMapRef.zoom <= 1213)

\* C15 amended: the zoom passed to the map constructor is a function of the
\* viewport's latitude delta only, zoom = log2(360 / latitudeDelta) - 2.5,
\* and for latitudeDelta = 0.0922 it is the same value every time,
\* approximately 9.43 (within 0.01, in 128ths).
C15_Step ==
    /\ (platform = "web" /\ googleMapRef' # NullMap)
          => /\ ZoomInvertsToDelta(googleMapRef')
             /\ googleMapRef'.latitudeDelta = 9220
                   => (googleMapRef'.zoom >= 1206 /\ googleMapRef'.zoom <= 1208)
    /\ (platform = "web" /\ googleMapRef # NullMap /\ googleMapRef' # NullMap
            /\ googleMapRef'.latitudeDelta = googleMapRef.latitudeDelta)
          => googleMapRef'.zoom = googleMapRef.zoom

C15_ZoomFromLatitudeDelta == [][C15_Step]_vars

\* Two maps were constructed for a latitude delta of 0.0922, at two centers.
C15_Witness ==
    /\ platform = "web" /\ mounted = "yes"
    /\ initialRegion = NullRegion /\ regionChanges = 0
    /\ mapsCreated = 2 /\ googleMapRef.id = 2
    /\ googleMapRef.latitudeDelta = 9220
    /\ position # NullPosition

\* C16: while showUserLocation has been false for the whole mount, no
\* permission or position request has been made, no reading is held, no
\* location error is set (the only error possible is the script's), no
\* marker exists, and the map is shown at the caller's region or the default
\* (native: until the MapView itself reports another region).
C16_NoLocationWhenOff ==
    (~showUserLocation /\ toggles = 0)
        => /\ pendingGeo = 0 /\ awaitingPermission = 0 /\ awaitingPosition = 0
           /\ positionRequests = 0 /\ statuses = {} /\ readings = 0
           /\ position = NullPosition /\ location = NullPosition
           /\ markers = {} /\ markersCreated = 0 /\ MarkersOnScreen = {}
           /\ errorMsg \in {Null, "Failed to load Google Maps"}
           /\ (platform = "native" /\ mounted = "yes")
                 => /\ El("MapView") \in screen
                    /\ reported = NullRegion
                          => region = ExpectedViewport(NullPosition,
                                                       initialRegion)
           /\ (platform = "web" /\ mounted = "yes" /\ ~Truthy(errorMsg))
                 => /\ El("mapDiv") \in screen
                    /\ mapLoaded
                          => /\ googleMapRef # NullMap
                             /\ MapShowsViewport(googleMapRef,
                                    ExpectedViewport(NullPosition,
                                                     initialRegion))

\* showUserLocation is false in a browser without geolocation: no error, and
\* the map stands at the caller's region.
C16_Witness ==
    /\ platform = "web" /\ mounted = "yes"
    /\ ~showUserLocation /\ toggles = 0 /\ ~geolocation
    /\ initialRegion \in CallerRegions /\ regionChanges = 0
    /\ errorMsg = Null /\ mapLoaded /\ googleMapRef.id = 1

\* C17: whenever a user-location marker exists it is attached to the map
\* object held in googleMapRef.
C17_MarkerOnCurrentMap ==
    platform = "web" => \A m \in markers : m.map = googleMapRef.id

\* C18: once errorMsg is set it is never cleared while the component is
\* mounted: the error text stays and the map widget is not rendered again.
C18_Step ==
    (Truthy(errorMsg) /\ mounted' = "yes")
        => /\ Truthy(errorMsg')
           /\ ErrorShown' /\ ~MapWidgetShown'
           /\ platform = "web" => ~mapRef'

C18_ErrorIsAbsorbing == [][C18_Step]_vars

\* Permission was denied, showUserLocation went off and on, the second
\* request was granted and its reading arrived: the error text is still shown.
C18_Witness ==
    /\ platform = "native" /\ mounted = "yes"
    /\ "denied" \in statuses /\ status = "granted"
    /\ toggles = 2 /\ location # NullPosition
    /\ ErrorShown /\ ~MapWidgetShown

====
